---- MODULE Spec2Model ----
(***************************************************************************)
(* Model of scripts/check_predictions.py: the three dataset checks, the    *)
(* badge renderer, the report writer and the script's run (main and the    *)
(* __main__ error handler).                                                *)
(*                                                                         *)
(* Numbers.  The script computes on floats read from CSV text.  The model  *)
(* keeps every quantity on an integer grid and computes exactly on it:     *)
(*   log10E  in units of 0.1      (19.6 is 196, 20.0 is 200)               *)
(*   J       in units of 1e-19    (3.2e-18 is 32, 1.0e-19 is 1)            *)
(*   f       in units of 1e-4 Hz  (1e-3 Hz is 10)                          *)
(*   h       in units of 1e-24    (5e-24 is 5, 5e-21 is 5000)              *)
(*   ell, Cl plain integers; a median is kept as twice its value           *)
(* Binary rounding of float division is not modelled.                      *)
(*                                                                         *)
(* The module also models the dataset scripts (fetch_planck.py,            *)
(* fetch_auger.py, fetch_gw.py, fetch_dm.py, generate_datasets.py,         *)
(* build_figures.py) and the pipeline fetch_figures.py, each script run    *)
(* as one step: ScriptSpec runs them one at a time in any order, PipeSpec  *)
(* runs fetch_figures.py.                                                  *)
(***************************************************************************)
EXTENDS Integers, Sequences, FiniteSets, TLC

VARIABLES
    data,        \* the data/ directory: check id -> NoFile or a CSV table
    writable,    \* the output paths that can be opened for writing
    pc,          \* position of the running script
    checks,      \* main's list "checks", as built so far
    exc,         \* the exception in flight (NoExc when none)
    passed_all,  \* main's local passed_all once the report is composed
    reportFile,  \* content of logs/checks_report.md (<<>>: no file)
    badgeFile,   \* content of badges/cru_checks.svg (<<>>: no file)
    written,     \* output paths written by the current run
    exitStatus,  \* exit status of the current run (Running until it ends)
    runs,        \* number of script runs started
    badgeLog,    \* the calls of write_badge so far, in order: the arguments and
                 \* the badge file before and after
    files,       \* the data/ directory as the fetch_* scripts and build_figures
                 \* see it: file id -> NoFile or a CSV table
    outputs,     \* badges/*_summary.json, *_summary.log and figures/*.pdf:
                 \* path -> <<>> (no file) or <<document>>
    inv,         \* the script invocations so far, in order: script, --force,
                 \* exit status, data/ before and after
    pipe         \* the fetch_figures.py process: position, arguments, status

scriptVars == <<files, outputs, inv, pipe>>
checkVars == <<data, pc, checks, exc, passed_all, reportFile, badgeFile,
               written, exitStatus, runs, badgeLog>>
vars == <<data, writable, pc, checks, exc, passed_all, reportFile, badgeFile,
          written, exitStatus, runs, badgeLog, files, outputs, inv, pipe>>

-----------------------------------------------------------------------------
(* Bounds of the model *)

MaxRows == 2
MaxRuns == 2
MaxCalls == 3
MaxInv == 3

-----------------------------------------------------------------------------
(* Program constants, on the grids above *)

E1 == 196
E2 == 200
RatioNum == 3
RatioDen == 10
GwTarget == 10
lower == 5
upper == 5000
EllLo == 500
EllHi == 2500
BandLoMax == 800
BandHiMin == 1000
MinWindow == 20

UHECR_CSV == "uhecr"
GW_CSV == "gw"
CMB_TT == "cmb"
BADGE_OUT == "badges/cru_checks.svg"
REPORT_MD == "logs/checks_report.md"

CheckIds == {UHECR_CSV, GW_CSV, CMB_TT}
NoFile == [exists |-> FALSE, header |-> {}, rows |-> <<>>]
Running == -1
NoExc == [type |-> "none", msg |-> "", code |-> 0]

-----------------------------------------------------------------------------
(* CSV cells and float() *)

\* float("inf"): greater than every finite value of the grids (and than twice
\* any of them); NaN is not modelled
Infinity == 100000

Num(n) == [tag |-> "num", num |-> n]
Text == [tag |-> "text", num |-> 0]
Inf == [tag |-> "inf", num |-> Infinity]

\* float(s) succeeds on numeric text and on "inf"
Parses(c) == c.tag \in {"num", "inf"}
Float(c) == c.num

Abs(x) == IF x < 0 THEN -x ELSE x

Table(hdr, rs) == [exists |-> TRUE, header |-> hdr, rows |-> rs]

\* os.path.exists(path)
Exists(d) == d.exists

\* read_csv_columns: the first required column absent from the header, or ""
MissingColumn(d, required_cols) ==
    IF \E i \in 1..Len(required_cols) : required_cols[i] \notin d.header
    THEN LET i == CHOOSE i \in 1..Len(required_cols) :
                    /\ required_cols[i] \notin d.header
                    /\ \A j \in 1..(i-1) : required_cols[j] \in d.header
         IN required_cols[i]
    ELSE ""

\* [float(r[col]) for r in rows]
Column(d, col) == [i \in 1..Len(d.rows) |-> Float(d.rows[i][col])]
ColumnParses(d, col) == \A i \in 1..Len(d.rows) : Parses(d.rows[i][col])

\* nearest_index taking the last index of least distance
nearest_index_last(values, target) ==
    CHOOSE i \in 1..Len(values) :
        \A j \in 1..Len(values) :
            \/ Abs(values[i] - target) < Abs(values[j] - target)
            \/ Abs(values[i] - target) = Abs(values[j] - target) /\ i >= j

\* min(range(len(values)), key=lambda i: abs(values[i] - target)): the first
\* index of least distance (indices from 1 here)
nearest_index(values, target) ==
    CHOOSE i \in 1..Len(values) :
        \A j \in 1..Len(values) :
            \/ Abs(values[i] - target) < Abs(values[j] - target)
            \/ Abs(values[i] - target) = Abs(values[j] - target) /\ i <= j

-----------------------------------------------------------------------------
(* Results of a check: a returned tuple (name, ok, detail) or a raised      *)
(* exception.  A detail is the text template and the numbers put into it.   *)

Ret(name, ok, text, vals) ==
    [raised |-> FALSE, name |-> name, ok |-> ok,
     detail |-> [text |-> text, vals |-> vals], err |-> NoExc]
Raise(type, msg) ==
    [raised |-> TRUE, name |-> "", ok |-> FALSE,
     detail |-> [text |-> "", vals |-> <<>>],
     err |-> [type |-> type, msg |-> msg, code |-> 0]]

\* f"{x:.3e}": rounded to four significant digits
RECURSIVE Scale4(_)
Scale4(x) == IF x < 10000 THEN 1 ELSE 10 * Scale4(x \div 10)
Fmt3e(x) ==
    LET a == Abs(x)
        p == Scale4(a)
        m == ((a + p \div 2) \div p) * p
    IN IF x < 0 THEN -m ELSE m

\* f"{ratio:.3f}" of num/den (den > 0, num >= 0): in thousandths
Fmt3f(num, den) == (2000 * num + den) \div (2 * den)

\* the templates whose text holds the word SKIPPED
SkippedTexts == {"SKIPPED (data/uhecr_flux.csv not found)",
                 "SKIPPED (data/gw_strain.csv not found)",
                 "SKIPPED (data/cmb_cl_TT.csv not found)"}

\* "SKIPPED" in detail
HasSkipped(detail) == detail.text \in SkippedTexts

-----------------------------------------------------------------------------
(* The checks *)

FirstRaise(d, cols) ==
    IF MissingColumn(d, cols) # ""
    THEN Raise("ValueError", "missing required column")
    ELSE IF \E i \in 1..Len(cols) : ~ColumnParses(d, cols[i])
    THEN Raise("ValueError", "could not convert string to float")
    ELSE Raise("none", "")

\* the comparison with an exclusive bound
uhecr_verdict_strict(J1, J2) == J2 * RatioDen < RatioNum * J1

uhecr_verdict(J1, J2) == J2 * RatioDen <= RatioNum * J1

\* the guard with strict comparisons
nonpositive_strict(J1, J2) == J1 < 0 \/ J2 < 0

\* if J1 <= 0 or J2 <= 0
nonpositive(J1, J2) == J1 <= 0 \/ J2 <= 0

check_uhecr_suppression(d) ==
    IF ~Exists(d)
    THEN Ret("UHECR suppression", TRUE, "SKIPPED (data/uhecr_flux.csv not found)", <<>>)
    ELSE IF FirstRaise(d, <<"log10E", "J">>).err.type # "none"
    THEN FirstRaise(d, <<"log10E", "J">>)
    ELSE IF Len(d.rows) = 0
    THEN Raise("ValueError", "min() arg is an empty sequence")
    ELSE
      LET log10E == Column(d, "log10E")
          J == Column(d, "J")
          i1 == nearest_index(log10E, E1)
          i2 == nearest_index(log10E, E2)
          J1 == J[i1]
          J2 == J[i2]
          passed == uhecr_verdict(J1, J2)
      IN IF nonpositive(J1, J2)
         THEN Ret("UHECR suppression", FALSE, "FAIL: non-positive flux values", <<J1, J2>>)
         ELSE IF J1 = 0
         THEN Raise("ZeroDivisionError", "float division by zero")
         ELSE Ret("UHECR suppression", passed,
                  IF passed THEN "ratio J(E2)/J(E1) (threshold <= 0.30) -> PASS"
                            ELSE "ratio J(E2)/J(E1) (threshold <= 0.30) -> FAIL",
                  <<Fmt3e(J1), Fmt3e(J2), Fmt3f(J2, J1)>>)

gw_verdict(h0) == lower <= h0 /\ h0 <= upper

check_gw_level(d) ==
    IF ~Exists(d)
    THEN Ret("GW level", TRUE, "SKIPPED (data/gw_strain.csv not found)", <<>>)
    ELSE IF FirstRaise(d, <<"f", "h">>).err.type # "none"
    THEN FirstRaise(d, <<"f", "h">>)
    ELSE IF Len(d.rows) = 0
    THEN Raise("ValueError", "min() arg is an empty sequence")
    ELSE
      LET f == Column(d, "f")
          h == Column(d, "h")
          idx == nearest_index(f, GwTarget)
          f0 == f[idx]
          h0 == h[idx]
          passed == gw_verdict(h0)
      IN Ret("GW level", passed,
             IF passed THEN "Nearest to 1e-3 Hz; allowed envelope [5.0e-24, 5.0e-21] -> PASS"
                       ELSE "Nearest to 1e-3 Hz; allowed envelope [5.0e-24, 5.0e-21] -> FAIL",
             <<Fmt3e(f0), Fmt3e(h0)>>)

\* sorted(xs)[k-1]
KthSmallest(xs, k) ==
    CHOOSE v \in {xs[i] : i \in 1..Len(xs)} :
        /\ Cardinality({i \in 1..Len(xs) : xs[i] < v}) < k
        /\ Cardinality({i \in 1..Len(xs) : xs[i] <= v}) >= k

\* twice median(xs), for a non-empty xs
median2(xs) ==
    LET n == Len(xs)
    IN IF n % 2 = 1
       THEN 2 * KthSmallest(xs, n \div 2 + 1)
       ELSE KthSmallest(xs, n \div 2) + KthSmallest(xs, n \div 2 + 1)

\* the comparison of the medians, not strict
cmb_verdict_nonstrict(m_hi2, m_lo2) == m_hi2 <= m_lo2

cmb_verdict(m_hi2, m_lo2) == m_hi2 < m_lo2

check_cmb_well_formed(d) ==
    IF ~Exists(d)
    THEN Ret("CMB TT well-formed", TRUE, "SKIPPED (data/cmb_cl_TT.csv not found)", <<>>)
    ELSE IF FirstRaise(d, <<"ell", "Cl">>).err.type # "none"
    THEN FirstRaise(d, <<"ell", "Cl">>)
    ELSE
      LET ell == Column(d, "ell")
          Cl == Column(d, "Cl")
          pairs == [i \in 1..Len(d.rows) |-> <<ell[i], Cl[i]>>]
          window == SelectSeq(pairs, LAMBDA x : EllLo <= x[1] /\ x[1] <= EllHi)
          lo == SelectSeq(window, LAMBDA x : EllLo <= x[1] /\ x[1] <= BandLoMax)
          hi == SelectSeq(window, LAMBDA x : BandHiMin <= x[1] /\ x[1] <= EllHi)
          band_lo == [i \in 1..Len(lo) |-> lo[i][2]]
          band_hi == [i \in 1..Len(hi) |-> hi[i][2]]
      IN IF Len(window) < MinWindow
         THEN Ret("CMB TT well-formed", FALSE, "FAIL: insufficient samples in 500<=l<=2500.", <<>>)
         ELSE IF \E i \in 1..Len(window) : window[i][2] <= 0
         THEN Ret("CMB TT well-formed", FALSE, "FAIL: non-positive Cl values in 500<=l<=2500.", <<>>)
         ELSE IF Len(band_lo) = 0 \/ Len(band_hi) = 0
         THEN Ret("CMB TT well-formed", FALSE, "FAIL: not enough points in comparison bands.", <<>>)
         ELSE LET m_lo == median2(band_lo)
                  m_hi == median2(band_hi)
                  passed == cmb_verdict(m_hi, m_lo)
              IN Ret("CMB TT well-formed", passed,
                     IF passed THEN "Require high-l median < low-l median -> PASS"
                               ELSE "Require high-l median < low-l median -> FAIL",
                     <<Fmt3e(m_lo), Fmt3e(m_hi)>>)

\* the check registered for a dataset, in main's order
CheckOrder == <<UHECR_CSV, GW_CSV, CMB_TT>>
RunCheck(id, d) ==
    IF id = UHECR_CSV THEN check_uhecr_suppression(d)
    ELSE IF id = GW_CSV THEN check_gw_level(d)
    ELSE check_cmb_well_formed(d)

-----------------------------------------------------------------------------
(* Badge and report *)

BadgeWidth == 110
BadgeHeight == 20
LabelWidth == 70
StatusWidth == 40
LabelTextX == 35
StatusTextX == 90
DefaultLabel == "CRU checks"

\* the SVG document of write_badge: its fixed numbers and the interpolated
\* label, text and color
\* the two colors exchanged
badge_color_swapped(passing) == IF passing THEN "#e05d44" ELSE "#4c1"

badge_color(passing) == IF passing THEN "#4c1" ELSE "#e05d44"
badge_text(passing) == IF passing THEN "passing" ELSE "failing"
badge_svg(passing, label) ==
    [width |-> BadgeWidth, height |-> BadgeHeight,
     aria_label |-> <<label, badge_text(passing)>>,
     label_rect |-> [x |-> 0, width |-> LabelWidth, fill |-> "#555"],
     status_rect |-> [x |-> LabelWidth, width |-> StatusWidth, fill |-> badge_color(passing)],
     label_text |-> [x |-> LabelTextX, s |-> label],
     status_text |-> [x |-> StatusTextX, s |-> badge_text(passing)]]

\* the file opened in append mode
WriteFile_append(old, doc) == Append(old, doc)

\* open(path, "w") ... f.write(doc): the file then holds doc alone
WriteFile(old, doc) == <<doc>>

\* the report main composes from its list of check results
\* the status word without the test for SKIPPED
Status_ok(r) == IF r.ok THEN "PASS" ELSE "FAIL"

\* main: status = "PASS" if ok else "FAIL"; "SKIP" if "SKIPPED" in detail
Status(r) ==
    IF HasSkipped(r.detail) THEN "SKIP" ELSE IF r.ok THEN "PASS" ELSE "FAIL"
\* passed_all as a disjunction of the results
PassedAll_any(cs) == \E i \in 1..Len(cs) : cs[i].ok

any_executed(cs) == \E i \in 1..Len(cs) : ~HasSkipped(cs[i].detail)
PassedAll(cs) ==
    IF ~any_executed(cs) THEN TRUE
    ELSE \A i \in 1..Len(cs) : ~(~cs[i].ok /\ ~HasSkipped(cs[i].detail))
ReportOf(cs) ==
    [kind |-> "checks",
     entries |-> [i \in 1..Len(cs) |->
                    [name |-> cs[i].name, status |-> Status(cs[i]), detail |-> cs[i].detail]],
     all_skipped_note |-> ~any_executed(cs),
     error |-> ""]
\* the handler's report without the exception text
ErrorReport_blank(e) ==
    [kind |-> "error", entries |-> <<>>, all_skipped_note |-> FALSE, error |-> ""]

\* the report of the __main__ handler
ErrorReport(e) ==
    [kind |-> "error", entries |-> <<>>, all_skipped_note |-> FALSE, error |-> e.msg]

\* a handler that catches every exception, SystemExit included
CaughtByHandler_all(e) == TRUE

\* except Exception: SystemExit is no Exception
CaughtByHandler(e) == e.type # "SystemExit"

OSError == [type |-> "OSError", msg |-> "Permission denied", code |-> 0]
SystemExit(code) == [type |-> "SystemExit", msg |-> "", code |-> code]

-----------------------------------------------------------------------------
(* The file-system states the runs start from *)

SeqUpTo(S, n) == UNION {[1..m -> S] : m \in 0..n}
RECURSIVE Rep(_, _)
Rep(n, x) == IF n = 0 THEN <<>> ELSE <<x>> \o Rep(n - 1, x)

URow(k, v) == [log10E |-> k, J |-> v]
GRow(k, v) == [f |-> k, h |-> v]
CRow(k, v) == [ell |-> k, Cl |-> v]

UHeader == {"log10E", "J", "sigma_stat", "sigma_sys"}
GHeader == {"f", "h", "sigma_h"}
CHeader == {"ell", "Cl"}

UPass == Table(UHeader, <<URow(Num(196), Num(32)), URow(Num(200), Num(1))>>)
UFail == Table(UHeader, <<URow(Num(196), Num(32)), URow(Num(200), Num(10))>>)
GPass == Table(GHeader, <<GRow(Num(10), Num(100))>>)
GFail == Table(GHeader, <<GRow(Num(10), Num(5001))>>)
CPass == Table(CHeader, Rep(10, CRow(Num(600), Num(3))) \o Rep(10, CRow(Num(1500), Num(1))))
CFail == Table(CHeader, Rep(10, CRow(Num(600), Num(3))) \o Rep(10, CRow(Num(1500), Num(3))))

\* files as the generator scripts write them: other column names
UOther == Table({"log10_E_eV", "J_eV_m2_s_sr_inv", "sigma_stat", "sigma_sys"},
                <<[log10_E_eV |-> Num(196), J_eV_m2_s_sr_inv |-> Num(16)]>>)
GOther == Table({"f_Hz", "h_strain", "sigma_h", "source"},
                <<[f_Hz |-> Num(10), h_strain |-> Num(100)]>>)
COther == Table({"ell", "C_ell_sr_inv", "sigma_C_ell_sr_inv"},
                <<[ell |-> Num(600), C_ell_sr_inv |-> Num(3)]>>)

UBasic == {NoFile, UPass, UFail, UOther}
GBasic == {NoFile, GPass, GFail, GOther}
CBasic == {NoFile, CPass, CFail, COther}

\* a value that parses as inf
UInf == Table(UHeader, <<URow(Num(196), Inf), URow(Num(200), Num(1))>>)
GInf == Table(GHeader, <<GRow(Num(10), Inf)>>)
CInf == Table(CHeader, Rep(10, CRow(Num(600), Inf)) \o Rep(10, CRow(Num(1500), Num(3))))

\* a header and no rows; a cell that is no number; inf; too few rows
UEdge == {Table(UHeader, <<>>), Table(UHeader, <<URow(Num(196), Text)>>),
          Table(UHeader, <<URow(Text, Num(1))>>), UInf}
GEdge == {Table(GHeader, <<>>), Table(GHeader, <<GRow(Text, Num(100))>>),
          Table(GHeader, <<GRow(Num(10), Text)>>), GInf}
CEdge == {Table(CHeader, <<>>), Table(CHeader, <<CRow(Num(600), Num(3))>>),
          Table(CHeader, <<CRow(Num(600), Text)>>), CInf}

UKeys == {195, 197, 200}
UVals == {0, 1, 3, 10, 32}
GKeys == {5, 10, 15}
GVals == {4, 5, 100, 5000, 5001}

URich == {Table(UHeader, rs) :
            rs \in SeqUpTo({URow(Num(k), Num(v)) : k \in UKeys, v \in UVals}, MaxRows)}
GRich == {Table(GHeader, rs) :
            rs \in SeqUpTo({GRow(Num(k), Num(v)) : k \in GKeys, v \in GVals}, MaxRows)}

\* cmb_cl_TT.csv tables around the decision points of the CMB check: CFill
\* rows inside the window and outside both bands, then up to MaxRows rows
\* outside the window, on the band edges, or non-positive
CMid == CRow(Num(900), Num(1))
CFill == {17, 18, 20}
CTail == {CRow(Num(499), Num(0)), CRow(Num(500), Num(3)), CRow(Num(800), Num(1)),
          CRow(Num(900), Num(0)), CRow(Num(1000), Num(3)), CRow(Num(2500), Num(1)),
          CRow(Num(2501), Num(0))}
CRich == {Table(CHeader, Rep(n, CMid) \o rs) : n \in CFill, rs \in SeqUpTo(CTail, MaxRows)}

Dir(u, g, c) == (UHECR_CSV :> u) @@ (GW_CSV :> g) @@ (CMB_TT :> c)
AllWritable == {BADGE_OUT, REPORT_MD}

\* every combination of the basic files, under every writability of the outputs
BasicEnvs ==
    {[data |-> Dir(u, g, c), writable |-> w] :
        u \in UBasic, g \in GBasic, c \in CBasic, w \in SUBSET AllWritable}
\* one file drawn from its full family, the other two absent or passing
RichEnvs ==
    {[data |-> Dir(u, g, c), writable |-> AllWritable] :
        u \in URich \cup UEdge, g \in {NoFile, GPass}, c \in {NoFile, CPass}}
    \cup
    {[data |-> Dir(u, g, c), writable |-> AllWritable] :
        u \in {NoFile, UPass}, g \in GRich \cup GEdge, c \in {NoFile, CPass}}
    \cup
    {[data |-> Dir(u, g, c), writable |-> AllWritable] :
        u \in {NoFile, UPass}, g \in {NoFile, GPass}, c \in CEdge}
    \cup
    {[data |-> Dir(NoFile, NoFile, c), writable |-> AllWritable] : c \in CRich}
Environments == BasicEnvs \cup RichEnvs

-----------------------------------------------------------------------------
(* The dataset scripts: the validators fetch_planck.py and fetch_auger.py,  *)
(* the generators fetch_gw.py and fetch_dm.py, build_figures.py, and the    *)
(* pipeline fetch_figures.py that runs them.  Timestamps and console output *)
(* are left out; matplotlib is taken to draw whatever list it is given.     *)

CMB_EE == "cmb_ee"
DM_CSV == "dm"
CMB_L500 == "cmb_l500"
DataFiles == {CMB_TT, CMB_EE, UHECR_CSV, GW_CSV, DM_CSV, CMB_L500}
DATA_DIR == "data"
PLANCK_JSON == "planck_summary.json"
PLANCK_LOG == "planck_summary.log"
AUGER_JSON == "auger_summary.json"
AUGER_LOG == "auger_summary.log"
UHECR_FIG == "uhecr_spectrum.pdf"
GW_FIG == "gw_prediction.pdf"
CMB_FIG == "cmb_power_spectrum.pdf"
OutPaths == {PLANCK_JSON, PLANCK_LOG, AUGER_JSON, AUGER_LOG, UHECR_FIG, GW_FIG, CMB_FIG}

NoFiles == [f \in DataFiles |-> NoFile]
NoOutputs == [p \in OutPaths |-> <<>>]
PipeIdle == [pc |-> "idle", k |-> 0, force |-> FALSE, present |-> {}, rc |-> Running,
             ok |-> FALSE]
\* no dataset script has run and none is running
NoScripts == files = NoFiles /\ outputs = NoOutputs /\ inv = <<>> /\ pipe = PipeIdle

Err(type, kind, file, cols) ==
    [raised |-> TRUE, type |-> type,
     msg |-> [kind |-> kind, file |-> file, cols |-> cols]]

\* np.isfinite(df[col].values).all() on one column: TypeError on a column
\* of dtype object (one that holds text, or has no rows), false when a
\* value is inf
ColumnFault(fname, d, col) ==
    IF Len(d.rows) = 0 \/ \E i \in 1..Len(d.rows) : d.rows[i][col].tag = "text"
    THEN {Err("TypeError", "ufunc 'isfinite' not supported", fname, {col})}
    ELSE IF \E i \in 1..Len(d.rows) : d.rows[i][col].tag = "inf"
    THEN {Err("ValueError", "non-finite values", fname, {col})}
    ELSE {}

\* load_csv: the exceptions it can raise on a file; none when it returns the
\* frame.  The columns are tested in the iteration order of a set, so the
\* first faulty column can be any faulty column.
load_csv(fname, d, required_cols) ==
    IF ~d.exists
    THEN {Err("FileNotFoundError", "Missing file", fname, {})}
    ELSE IF ~(required_cols \subseteq d.header)
    THEN {Err("ValueError", "missing columns", fname, required_cols \ d.header)}
    ELSE UNION {ColumnFault(fname, d, col) : col \in required_cols}

Nums(d, col) == [i \in 1..Len(d.rows) |-> d.rows[i][col].num]
\* np.diff
diff(xs) == [i \in 1..(Len(xs) - 1) |-> xs[i + 1] - xs[i]]
SeqMin(xs) == CHOOSE v \in {xs[i] : i \in 1..Len(xs)} : \A i \in 1..Len(xs) : v <= xs[i]
SeqMax(xs) == CHOOSE v \in {xs[i] : i \in 1..Len(xs)} : \A i \in 1..Len(xs) : v >= xs[i]
Count(xs, P(_)) == Cardinality({i \in 1..Len(xs) : P(xs[i])})

\* mean(|d - median(d)| > 20 * mad) as <<outliers, len(d)>>; len(d) = 0 is the
\* nan numpy gives for an empty d.  With a_i = 2|d_i - median(d)| the test
\* |d_i - median(d)| > 20 * (median(a)/2 + 1e-32) is a_i > 10 * (2 median(a))
outlier_frac(Cl) ==
    LET d == diff(Cl)
    IN IF Len(d) = 0 THEN <<0, 0>>
       ELSE LET m2 == median2(d)
                a == [i \in 1..Len(d) |-> Abs(2 * d[i] - m2)]
                mad2 == median2(a)
            IN <<Count(a, LAMBDA x : x > 10 * mad2), Len(d)>>

\* fetch_planck.sanity_checks on a loaded frame
planck_sanity_checks(d, name) ==
    LET ell == Nums(d, "ell")
        Cl == Nums(d, "Cl")
    IN IF \E i \in 1..Len(ell) : ell[i] < 2
       THEN Err("ValueError", "ell must start at >=2", name, {})
       ELSE IF Len(ell) = 0
       THEN Err("ValueError", "zero-size array to reduction operation minimum", name, {})
       ELSE IF ~(\A i \in 1..Len(diff(ell)) : diff(ell)[i] > 0)
       THEN Err("ValueError", "ell must be strictly increasing", name, {})
       ELSE [raised |-> FALSE, name |-> name,
             ell_span |-> <<SeqMin(ell), SeqMax(ell)>>,
             n_rows |-> Len(ell),
             outlier_frac |-> outlier_frac(Cl),
             neg_frac |-> <<Count(Cl, LAMBDA x : x < 0), Len(Cl)>>,
             median_Cl |-> median2(Cl)]

\* ok = outlier_frac < 0.20 and neg_frac <= 1e-15 (a nan compares false)
planck_ok(info) ==
    /\ info.outlier_frac[2] > 0 /\ 5 * info.outlier_frac[1] < info.outlier_frac[2]
    /\ info.neg_frac[1] = 0

\* fetch_auger.sanity_checks on a loaded frame
auger_sanity_checks(d, name) ==
    LET E == Nums(d, "log10E")
        J == Nums(d, "J")
        stat == Nums(d, "stat")
        sys == Nums(d, "sys")
    IN IF Len(E) = 0
       THEN Err("ValueError", "zero-size array to reduction operation minimum", name, {})
       ELSE IF (\E i \in 1..Len(stat) : stat[i] < 0) \/ (\E i \in 1..Len(sys) : sys[i] < 0)
       THEN Err("ValueError", "Negative error bars detected", name, {})
       ELSE [raised |-> FALSE,
             E_span |-> <<SeqMin(E), SeqMax(E)>>,
             n_rows |-> Len(E),
             monotonic |-> \A i \in 1..Len(diff(J)) : diff(J)[i] <= 0,
             median_flux |-> median2(J)]

PLANCK_REQUIRED == <<[file |-> CMB_TT, name |-> "cmb_cl_TT.csv", cols |-> {"ell", "Cl"}],
                     [file |-> CMB_EE, name |-> "cmb_cl_EE.csv", cols |-> {"ell", "Cl"}]>>
AUGER_FILENAME == "uhecr_flux.csv"
AUGER_REQUIRED_COLS == {"log10E", "J", "stat", "sys"}

\* what the body of the try block gives for one file: the exceptions of
\* load_csv, or else what sanity_checks gives
PlanckStep(fs, k) ==
    LET q == PLANCK_REQUIRED[k]
        errs == load_csv(q.name, fs[q.file], q.cols)
    IN IF errs # {} THEN errs ELSE {planck_sanity_checks(fs[q.file], q.name)}
AugerStep(fs) ==
    LET errs == load_csv(AUGER_FILENAME, fs[UHECR_CSV], AUGER_REQUIRED_COLS)
    IN IF errs # {} THEN errs ELSE {auger_sanity_checks(fs[UHECR_CSV], AUGER_FILENAME)}

\* a validator that returns 0 whatever it found
validator_status_zero(passed) == 0

\* return 0 if summary["passed"] else 2
validator_status(passed) == IF passed THEN 0 ELSE 2
\* the except block: passed = False, the error text in notes and in the log
Failed(done_infos, done_lines, e) ==
    [summary |-> [files |-> done_infos, passed |-> FALSE, notes |-> <<e.msg>>],
     log |-> Append(done_lines, [error |-> e.msg]),
     rc |-> validator_status(FALSE)]
PlanckLine(info) == [file |-> info.name, status |-> IF planck_ok(info) THEN "OK" ELSE "FLAG"]

\* fetch_planck.main: the summary, the log and the return value it can give
planck_main(fs) ==
    {IF r1.raised THEN Failed(<<>>, <<>>, r1)
     ELSE IF r2.raised THEN Failed(<<r1>>, <<PlanckLine(r1)>>, r2)
     ELSE [summary |-> [files |-> <<r1, r2>>,
                        passed |-> planck_ok(r1) /\ planck_ok(r2),
                        notes |-> <<>>],
           log |-> <<PlanckLine(r1), PlanckLine(r2)>>,
           rc |-> validator_status(planck_ok(r1) /\ planck_ok(r2))] :
        r1 \in PlanckStep(fs, 1), r2 \in PlanckStep(fs, 2)}

\* fetch_auger.main
auger_main(fs) ==
    {IF r.raised THEN Failed(<<>>, <<>>, r)
     ELSE [summary |-> [files |-> <<r>>, passed |-> r.monotonic, notes |-> <<>>],
           log |-> <<[file |-> AUGER_FILENAME,
                      status |-> IF r.monotonic THEN "OK" ELSE "FLAG"]>>,
           rc |-> validator_status(r.monotonic)] :
        r \in AugerStep(fs)}

\* fetch_gw.generate_strain_rows: h0 (f/f0)^2 / (1 + (f/0.02)^2) and a tenth
\* of it as sigma, on the grid points from 5e-4 Hz up (f in 1e-4 Hz, h in
\* 1e-24; the lower grid points are below the resolution of these units)
generate_strain_rows ==
    <<[f_Hz |-> Num(5), h_strain |-> Num(25), sigma_h |-> Num(2), source |-> Text],
      [f_Hz |-> Num(10), h_strain |-> Num(100), sigma_h |-> Num(10), source |-> Text],
      [f_Hz |-> Num(20), h_strain |-> Num(396), sigma_h |-> Num(40), source |-> Text],
      [f_Hz |-> Num(50), h_strain |-> Num(2353), sigma_h |-> Num(235), source |-> Text],
      [f_Hz |-> Num(100), h_strain |-> Num(8000), sigma_h |-> Num(800), source |-> Text]>>
GW_FIELDNAMES == {"f_Hz", "h_strain", "sigma_h", "source"}

\* fetch_dm.representative_rows (sigma in 1e-47 cm2)
DmRow(m, sigma, year) ==
    [m_GeV |-> Num(m), sigma_SI_cm2 |-> Num(sigma), experiment |-> Text,
     year |-> Num(year), source |-> Text]
representative_rows ==
    <<DmRow(6, 500000, 2020), DmRow(10, 8000, 2021), DmRow(30, 20, 2022),
      DmRow(50, 12, 2022), DmRow(100, 8, 2023), DmRow(200, 15, 2021),
      DmRow(500, 30, 2022), DmRow(1000, 60, 2023)>>
DM_FIELDNAMES == {"m_GeV", "sigma_SI_cm2", "experiment", "year", "source"}

\* write_csv(path, rows): DictWriter with the fieldnames, header then rows
write_csv(fieldnames, rows) == Table(fieldnames, rows)

\* the generator that rewrites the file whether or not it exists
keeps_file_never(d, force) == FALSE

\* if os.path.exists(OUT_CSV) and not args.force: return
keeps_file(d, force) == d.exists /\ ~force

\* main of fetch_gw.py / fetch_dm.py on data/ (w: the writable paths); a
\* failed open(path, "w") is an uncaught OSError: traceback, status 1
generator_main(fs, out_csv, doc, force, w) ==
    IF keeps_file(fs[out_csv], force) THEN [files |-> fs, rc |-> 0]
    ELSE IF DATA_DIR \notin w THEN [files |-> fs, rc |-> 1]
    ELSE [files |-> [fs EXCEPT ![out_csv] = doc], rc |-> 0]
gw_main(fs, force, w) ==
    generator_main(fs, GW_CSV, write_csv(GW_FIELDNAMES, generate_strain_rows), force, w)
dm_main(fs, force, w) ==
    generator_main(fs, DM_CSV, write_csv(DM_FIELDNAMES, representative_rows), force, w)

\* generate_datasets.py: the last point of the frequency grid (f in 1e-4 Hz,
\* h and sigma in 1e-24), the eleven flux bins (log10E in 0.1, J in 1e-19,
\* sigmas in 1e-21) and the spectrum at l = 500, 1500, 2500 (Cl in 1e-12,
\* sigma in 1e-15)
gw_df == Table({"frequency_hz", "strain", "sigma_strain"},
               <<[frequency_hz |-> Num(10), strain |-> Num(100), sigma_strain |-> Num(10)]>>)
UhecrBin(e, j, st, sy) ==
    [log10_E_eV |-> Num(e), J_eV_m2_s_sr_inv |-> Num(j), sigma_stat |-> Num(st),
     sigma_sys |-> Num(sy)]
uhecr_df == Table({"log10_E_eV", "J_eV_m2_s_sr_inv", "sigma_stat", "sigma_sys"},
                  <<UhecrBin(180, 100, 1000, 1400), UhecrBin(182, 79, 80, 110),
                    UhecrBin(184, 63, 60, 90), UhecrBin(186, 50, 50, 70),
                    UhecrBin(188, 40, 40, 60), UhecrBin(190, 32, 30, 40),
                    UhecrBin(192, 25, 20, 30), UhecrBin(194, 20, 20, 30),
                    UhecrBin(196, 16, 20, 20), UhecrBin(198, 13, 10, 20),
                    UhecrBin(200, 1, 20, 14)>>)
CmbPoint(l, c) == [ell |-> Num(l), C_ell_sr_inv |-> Num(c), sigma_C_ell_sr_inv |-> Num(c)]
cmb_df == Table({"ell", "C_ell_sr_inv", "sigma_C_ell_sr_inv"},
                <<CmbPoint(500, 120), CmbPoint(1500, 85), CmbPoint(2500, 50)>>)

\* generate_datasets.py: the three to_csv calls, each over whatever was there;
\* a failed write is an uncaught OSError, status 1
generate_main(fs, w) ==
    IF DATA_DIR \notin w THEN [files |-> fs, rc |-> 1]
    ELSE [files |-> [fs EXCEPT ![GW_CSV] = gw_df, ![UHECR_CSV] = uhecr_df,
                               ![CMB_L500] = cmb_df],
          rc |-> 0]

\* build_figures.read_*_csv raises: a row lacks a column (KeyError) or holds
\* a value float() rejects (ValueError); a file without rows raises nothing
ReadFault(d, cols) ==
    /\ Len(d.rows) > 0
    /\ \/ ~(cols \subseteq d.header)
       \/ \E i \in 1..Len(d.rows), col \in cols : d.rows[i][col].tag = "text"
\* read_gw_csv also converts sigma_h when the column is there
GwReadFault(d) ==
    \/ ReadFault(d, {"f", "h"})
    \/ "sigma_h" \in d.header /\ ReadFault(d, {"sigma_h"})
\* plot_cmb: read TT, read EE when it exists, then min(ell_TT)
CmbPlotFault(fs) ==
    \/ ReadFault(fs[CMB_TT], {"ell", "Cl"})
    \/ fs[CMB_EE].exists /\ ReadFault(fs[CMB_EE], {"ell", "Cl"})
    \/ Len(fs[CMB_TT].rows) = 0

\* build_figures.py: plot_uhecr, plot_gw, plot_cmb in order, each skipped
\* when its file is missing; the first exception ends the script, status 1
build_main(fs) ==
    LET u == fs[UHECR_CSV].exists
        g == fs[GW_CSV].exists
        c == fs[CMB_TT].exists
        f1 == IF u THEN {UHECR_FIG} ELSE {}
        f2 == f1 \cup (IF g THEN {GW_FIG} ELSE {})
        f3 == f2 \cup (IF c THEN {CMB_FIG} ELSE {})
    IN IF u /\ ReadFault(fs[UHECR_CSV], {"log10E", "J", "sigma_stat", "sigma_sys"})
       THEN [figs |-> {}, rc |-> 1]
       ELSE IF g /\ GwReadFault(fs[GW_CSV])
       THEN [figs |-> f1, rc |-> 1]
       ELSE IF c /\ CmbPlotFault(fs)
       THEN [figs |-> f2, rc |-> 1]
       ELSE [figs |-> f3, rc |-> 0]

Scripts == <<"fetch_planck.py", "fetch_auger.py", "fetch_gw.py", "fetch_dm.py",
             "build_figures.py">>

\* one run of a script as a process: the states of data/ and of the output
\* files it can leave, with its exit status
RunScript(script, force, fs, outs, w) ==
    IF script = "fetch_planck.py"
    THEN {[files |-> fs, rc |-> o.rc,
           outputs |-> [outs EXCEPT ![PLANCK_JSON] = WriteFile(@, o.summary),
                                    ![PLANCK_LOG] = WriteFile(@, o.log)]] :
             o \in planck_main(fs)}
    ELSE IF script = "fetch_auger.py"
    THEN {[files |-> fs, rc |-> o.rc,
           outputs |-> [outs EXCEPT ![AUGER_JSON] = WriteFile(@, o.summary),
                                    ![AUGER_LOG] = WriteFile(@, o.log)]] :
             o \in auger_main(fs)}
    ELSE IF script = "fetch_gw.py"
    THEN {[files |-> gw_main(fs, force, w).files, rc |-> gw_main(fs, force, w).rc,
           outputs |-> outs]}
    ELSE IF script = "fetch_dm.py"
    THEN {[files |-> dm_main(fs, force, w).files, rc |-> dm_main(fs, force, w).rc,
           outputs |-> outs]}
    ELSE IF script = "generate_datasets.py"
    THEN {[files |-> generate_main(fs, w).files, rc |-> generate_main(fs, w).rc,
           outputs |-> outs]}
    ELSE {[files |-> fs, rc |-> build_main(fs).rc,
           outputs |-> [p \in OutPaths |->
                          IF p \in build_main(fs).figs THEN WriteFile(outs[p], "pdf")
                          ELSE outs[p]]]}

-----------------------------------------------------------------------------
(* The run of the script *)

Init ==
    /\ \E e \in Environments : data = e.data /\ writable = e.writable
    /\ pc = "idle"
    /\ checks = <<>>
    /\ exc = NoExc
    /\ passed_all = TRUE
    /\ reportFile = <<>>
    /\ badgeFile = <<>>
    /\ written = {}
    /\ exitStatus = Running
    /\ runs = 0
    /\ badgeLog = <<>>
    /\ NoScripts

\* python scripts/check_predictions.py: main() begins, ensure_dirs()
StartRun ==
    /\ pc = "idle"
    /\ pc' = "check_uhecr"
    /\ checks' = <<>>
    /\ exc' = NoExc
    /\ passed_all' = TRUE
    /\ written' = {}
    /\ exitStatus' = Running
    /\ runs' = runs + 1
    /\ UNCHANGED <<data, writable, reportFile, badgeFile, badgeLog, scriptVars>>

\* one element of main's list: the check returns its tuple or raises
Evaluate(id, next) ==
    LET r == RunCheck(id, data[id])
    IN /\ IF r.raised
          THEN /\ exc' = r.err
               /\ pc' = "raised"
               /\ UNCHANGED checks
          ELSE /\ checks' = Append(checks, r)
               /\ pc' = next
               /\ UNCHANGED exc
       /\ UNCHANGED <<data, writable, passed_all, reportFile, badgeFile, written,
                      exitStatus, runs, badgeLog>>

EvalUhecr == pc = "check_uhecr" /\ Evaluate(UHECR_CSV, "check_gw") /\ UNCHANGED scriptVars
EvalGw == pc = "check_gw" /\ Evaluate(GW_CSV, "check_cmb") /\ UNCHANGED scriptVars
EvalCmb == pc = "check_cmb" /\ Evaluate(CMB_TT, "compose") /\ UNCHANGED scriptVars

\* write_report(md)
write_report(doc, next) ==
    IF REPORT_MD \in writable
    THEN /\ reportFile' = WriteFile(reportFile, doc)
         /\ written' = written \cup {REPORT_MD}
         /\ pc' = next
         /\ UNCHANGED exc
    ELSE /\ exc' = OSError
         /\ pc' = "raised"
         /\ UNCHANGED <<reportFile, written>>

\* write_badge(passing, label)
write_badge(passing, label, next) ==
    IF BADGE_OUT \in writable
    THEN /\ badgeFile' = WriteFile(badgeFile, badge_svg(passing, label))
         /\ badgeLog' = Append(badgeLog,
                [passing |-> passing, label |-> label, before |-> badgeFile,
                 after |-> WriteFile(badgeFile, badge_svg(passing, label))])
         /\ written' = written \cup {BADGE_OUT}
         /\ pc' = next
         /\ UNCHANGED exc
    ELSE /\ exc' = OSError
         /\ pc' = "raised"
         /\ UNCHANGED <<badgeFile, badgeLog, written>>

\* main: the loop over the results, then write_report
ComposeReport ==
    /\ pc = "compose"
    /\ passed_all' = PassedAll(checks)
    /\ write_report(ReportOf(checks), "write_badge")
    /\ UNCHANGED <<data, writable, checks, badgeFile, exitStatus, runs, badgeLog, scriptVars>>

\* main without its write_badge call
MainBadge_skipped ==
    /\ pc = "write_badge"
    /\ pc' = "sys_exit"
    /\ UNCHANGED <<data, writable, checks, exc, passed_all, reportFile, badgeFile,
                   written, exitStatus, runs, badgeLog, scriptVars>>

\* main: write_badge(passed_all)
MainBadge ==
    /\ pc = "write_badge"
    /\ write_badge(passed_all, DefaultLabel, "sys_exit")
    /\ UNCHANGED <<data, writable, checks, passed_all, reportFile, exitStatus, runs, scriptVars>>

\* main: sys.exit(0 if passed_all else 1)
SysExit ==
    /\ pc = "sys_exit"
    /\ exc' = SystemExit(IF passed_all THEN 0 ELSE 1)
    /\ pc' = "raised"
    /\ UNCHANGED <<data, writable, checks, passed_all, reportFile, badgeFile, written,
                   exitStatus, runs, badgeLog, scriptVars>>

\* an exception leaves main() and meets "except Exception": ensure_dirs()
Catch ==
    /\ pc = "raised"
    /\ CaughtByHandler(exc)
    /\ pc' = "handler_badge"
    /\ UNCHANGED <<data, writable, checks, exc, passed_all, reportFile, badgeFile,
                   written, exitStatus, runs, badgeLog, scriptVars>>

\* SystemExit passes the handler: the interpreter exits with its code
Exit ==
    /\ pc = "raised"
    /\ ~CaughtByHandler(exc)
    /\ exitStatus' = exc.code
    /\ pc' = "done"
    /\ UNCHANGED <<data, writable, checks, exc, passed_all, reportFile, badgeFile,
                   written, runs, badgeLog, scriptVars>>

\* an exception raised inside the except block is not caught: traceback, status 1
Uncaught == pc' = "done" /\ exitStatus' = 1

\* handler: write_badge(False)
HandlerBadge ==
    /\ pc = "handler_badge"
    /\ IF BADGE_OUT \in writable
       THEN /\ write_badge(FALSE, DefaultLabel, "handler_report")
            /\ UNCHANGED exitStatus
       ELSE /\ Uncaught
            /\ UNCHANGED <<exc, badgeFile, badgeLog, written>>
    /\ UNCHANGED <<data, writable, checks, passed_all, reportFile, runs, scriptVars>>

\* handler: write_report(f"...**ERROR:** {e}")
HandlerReport ==
    /\ pc = "handler_report"
    /\ IF REPORT_MD \in writable
       THEN /\ write_report(ErrorReport(exc), "handler_exit")
            /\ UNCHANGED exitStatus
       ELSE /\ Uncaught
            /\ UNCHANGED <<exc, reportFile, written>>
    /\ UNCHANGED <<data, writable, checks, passed_all, badgeFile, runs, badgeLog, scriptVars>>

\* handler: sys.exit(1)
HandlerExit ==
    /\ pc = "handler_exit"
    /\ exitStatus' = 1
    /\ pc' = "done"
    /\ UNCHANGED <<data, writable, checks, exc, passed_all, reportFile, badgeFile,
                   written, runs, badgeLog, scriptVars>>

\* between two invocations one data file is replaced or removed, or the
\* permissions of the output directories change (further runs are explored
\* from the basic files only, to keep the reachable states finite and few)
Between ==
    /\ pc = "done"
    /\ runs < MaxRuns
    /\ data[UHECR_CSV] \in UBasic /\ data[GW_CSV] \in GBasic /\ data[CMB_TT] \in CBasic
    /\ \/ \E u \in UBasic : data' = [data EXCEPT ![UHECR_CSV] = u] /\ UNCHANGED writable
       \/ \E g \in GBasic : data' = [data EXCEPT ![GW_CSV] = g] /\ UNCHANGED writable
       \/ \E c \in CBasic : data' = [data EXCEPT ![CMB_TT] = c] /\ UNCHANGED writable
       \/ \E w \in SUBSET AllWritable : writable' = w /\ UNCHANGED data
    /\ pc' = "idle"
    /\ UNCHANGED <<checks, exc, passed_all, reportFile, badgeFile, written,
                   exitStatus, runs, badgeLog, scriptVars>>

Next ==
    \/ StartRun
    \/ EvalUhecr
    \/ EvalGw
    \/ EvalCmb
    \/ ComposeReport
    \/ MainBadge
    \/ SysExit
    \/ Catch
    \/ Exit
    \/ HandlerBadge
    \/ HandlerReport
    \/ HandlerExit
    \/ Between

Spec == Init /\ [][Next]_vars

-----------------------------------------------------------------------------
(* write_badge as a function of its arguments: calls with any flag and label *)

Labels == {"CRU", "CRU checks", "CRU thesis checks"}

InitBadge ==
    /\ data = Dir(NoFile, NoFile, NoFile)
    /\ writable = AllWritable
    /\ pc = "idle"
    /\ checks = <<>>
    /\ exc = NoExc
    /\ passed_all = TRUE
    /\ reportFile = <<>>
    /\ badgeFile = <<>>
    /\ written = {}
    /\ exitStatus = Running
    /\ runs = 0
    /\ badgeLog = <<>>
    /\ NoScripts

CallWriteBadge ==
    /\ pc = "idle"
    /\ Len(badgeLog) < MaxCalls
    /\ \E passing \in BOOLEAN, label \in Labels : write_badge(passing, label, "idle")
    /\ UNCHANGED <<data, writable, checks, passed_all, reportFile, exitStatus, runs, scriptVars>>

NextBadge == CallWriteBadge

BadgeSpec == InitBadge /\ [][NextBadge]_vars

-----------------------------------------------------------------------------
(* The dataset scripts run one at a time, in any order *)

ARow(e, j, st, sy) ==
    [log10E |-> e, J |-> j, stat |-> st, sys |-> sy, sigma_stat |-> st, sigma_sys |-> sy]
GFull(f, h, sg) == [f |-> f, h |-> h, sigma_h |-> sg]
AHeader == {"log10E", "J", "stat", "sys"}
AFullHeader == AHeader \cup {"sigma_stat", "sigma_sys"}

\* ell = 2, 3, ..., n+1 and Cl = 10 except 100 at the rows of the set at
Spike(n, at) ==
    Table(CHeader, [i \in 1..n |-> CRow(Num(i + 1), Num(IF i \in at THEN 100 ELSE 10))])
TTGood == Table(CHeader, <<CRow(Num(2), Num(9)), CRow(Num(3), Num(7)), CRow(Num(4), Num(7))>>)
TTFlag == Spike(6, {6})
\* cmb_cl_TT.csv as fetch_planck.py can find it
PlanckFam ==
    {NoFile, TTGood, COther, Table(CHeader, <<>>),
     Table(CHeader, <<CRow(Num(2), Num(9))>>),
     Table(CHeader, <<CRow(Num(1), Num(9)), CRow(Num(2), Num(8))>>),
     Table(CHeader, <<CRow(Num(3), Num(9)), CRow(Num(3), Num(8))>>),
     Table(CHeader, <<CRow(Num(2), Num(9)), CRow(Num(3), Num(-1)), CRow(Num(4), Num(7))>>),
     Table(CHeader, <<CRow(Num(2), Inf)>>),
     Table(CHeader, <<CRow(Text, Num(9))>>),
     Table(CHeader, <<CRow(Text, Inf)>>),
     Spike(11, {11}), TTFlag, Spike(8, {7})}
EEFam == {NoFile, TTGood, Table(CHeader, <<CRow(Num(2), Inf)>>)}

AGood == Table(AHeader, <<ARow(Num(190), Num(32), Num(1), Num(2)),
                           ARow(Num(196), Num(10), Num(1), Num(0)),
                           ARow(Num(200), Num(1), Num(0), Num(1))>>)
AFull == Table(AFullHeader, AGood.rows)
ARising == Table(AFullHeader, <<ARow(Num(196), Num(1), Num(1), Num(1)),
                                ARow(Num(200), Num(2), Num(1), Num(1))>>)
\* the columns check_predictions.py and build_figures.py read, without stat, sys
ASigma == Table(UHeader, <<[log10E |-> Num(196), J |-> Num(32), sigma_stat |-> Num(1),
                            sigma_sys |-> Num(1)]>>)
\* uhecr_flux.csv as fetch_auger.py can find it
AugerFam ==
    {NoFile, AGood, AFull, ASigma, ARising, Table(AHeader, <<>>),
     Table(AHeader, <<ARow(Num(196), Num(32), Num(1), Num(1))>>),
     Table(AHeader, <<ARow(Num(196), Num(3), Num(1), Num(1)),
                      ARow(Num(200), Num(3), Num(1), Num(1))>>),
     Table(AHeader, <<ARow(Num(196), Num(32), Num(-1), Num(1))>>),
     Table(AHeader, <<ARow(Num(196), Num(32), Num(1), Num(-1))>>),
     Table(AHeader, <<ARow(Num(196), Inf, Num(1), Num(1))>>),
     Table(AHeader, <<ARow(Num(196), Num(32), Text, Num(1))>>)}

GwGenerated == write_csv(GW_FIELDNAMES, generate_strain_rows)
DmGenerated == write_csv(DM_FIELDNAMES, representative_rows)
GUser == Table(GHeader, <<GFull(Num(10), Num(100), Num(10))>>)
DUser == Table({"mass_GeV", "sigma_cm2"}, <<[mass_GeV |-> Num(10), sigma_cm2 |-> Num(5)]>>)
GwFam == {NoFile, GUser, GwGenerated}
DmFam == {NoFile, DUser, DmGenerated}

Tree(tt, ee, u, g, d) ==
    (CMB_TT :> tt) @@ (CMB_EE :> ee) @@ (UHECR_CSV :> u) @@ (GW_CSV :> g) @@ (DM_CSV :> d)
    @@ (CMB_L500 :> NoFile)
ScriptEnvs ==
    {[files |-> Tree(tt, ee, NoFile, NoFile, NoFile), writable |-> {DATA_DIR}] :
        tt \in PlanckFam, ee \in EEFam}
    \cup
    {[files |-> Tree(TTGood, TTGood, u, NoFile, NoFile), writable |-> {DATA_DIR}] :
        u \in AugerFam}
    \cup
    {[files |-> Tree(NoFile, NoFile, NoFile, g, d), writable |-> w] :
        g \in GwFam, d \in DmFam, w \in {{}, {DATA_DIR}}}

\* the variables of check_predictions.py, which does not run here
ChecksIdle ==
    /\ data = Dir(NoFile, NoFile, NoFile)
    /\ pc = "idle"
    /\ checks = <<>>
    /\ exc = NoExc
    /\ passed_all = TRUE
    /\ reportFile = <<>>
    /\ badgeFile = <<>>
    /\ written = {}
    /\ exitStatus = Running
    /\ runs = 0
    /\ badgeLog = <<>>

InitScripts ==
    /\ ChecksIdle
    /\ \E e \in ScriptEnvs : files = e.files /\ writable = e.writable
    /\ outputs = NoOutputs
    /\ inv = <<>>
    /\ pipe = PipeIdle

\* python scripts/<script> [--force], run to its end
Invoke(script, force) ==
    \E r \in RunScript(script, force, files, outputs, writable) :
        /\ files' = r.files
        /\ outputs' = r.outputs
        /\ inv' = Append(inv, [script |-> script, force |-> force, rc |-> r.rc,
                               before |-> files, after |-> r.files])

Standalone(script, force) ==
    /\ pipe.pc = "idle"
    /\ Len(inv) < MaxInv
    /\ Invoke(script, force)
    /\ UNCHANGED <<pipe, writable, checkVars>>

RunPlanck == Standalone("fetch_planck.py", FALSE)
RunAuger == Standalone("fetch_auger.py", FALSE)
RunGw == \E force \in BOOLEAN : Standalone("fetch_gw.py", force)
RunDm == \E force \in BOOLEAN : Standalone("fetch_dm.py", force)
RunBuild == Standalone("build_figures.py", FALSE)
RunGenerate == Standalone("generate_datasets.py", FALSE)

NextScripts ==
    \/ RunPlanck
    \/ RunAuger
    \/ RunGw
    \/ RunDm
    \/ RunBuild
    \/ RunGenerate

ScriptSpec == InitScripts /\ [][NextScripts]_vars

-----------------------------------------------------------------------------
(* fetch_figures.py *)

\* sys.exit(1) whatever the script returned
run_script_exit_one(returncode) == 1

\* except CalledProcessError as e: sys.exit(e.returncode)
run_script_exit(returncode) == returncode

AllScripts == {Scripts[k] : k \in 1..Len(Scripts)}
PipeEnvs ==
    {[files |-> Tree(tt, ee, u, g, d), writable |-> w, present |-> ps] :
        tt \in {NoFile, TTGood, TTFlag}, ee \in {NoFile, TTGood},
        u \in {NoFile, AGood, AFull, ARising}, g \in GwFam, d \in {NoFile, DmGenerated},
        w \in {{}, {DATA_DIR}},
        ps \in {AllScripts} \cup {AllScripts \ {x} : x \in AllScripts}}

InitPipe ==
    /\ ChecksIdle
    /\ \E e \in PipeEnvs :
          /\ files = e.files
          /\ writable = e.writable
          /\ pipe = [PipeIdle EXCEPT !.present = e.present]
    /\ outputs = NoOutputs
    /\ inv = <<>>

\* main: parse_args, check_exists(DATA_DIR), check_exists(FIG_DIR)
PipeStart ==
    /\ pipe.pc = "idle"
    /\ \E force \in BOOLEAN : pipe' = [pipe EXCEPT !.pc = "run", !.k = 1, !.force = force]
    /\ UNCHANGED <<files, outputs, inv, writable, checkVars>>

\* run_script(Scripts[k], force)
run_script(k) ==
    /\ pipe.pc = "run"
    /\ pipe.k = k
    /\ IF Scripts[k] \notin pipe.present
       THEN /\ pipe' = [pipe EXCEPT !.pc = "done", !.rc = 1]
            /\ UNCHANGED <<files, outputs, inv>>
       ELSE /\ Invoke(Scripts[k], pipe.force)
            /\ LET rc == inv'[Len(inv')].rc
               IN pipe' = IF rc # 0
                          THEN [pipe EXCEPT !.pc = "done", !.rc = run_script_exit(rc)]
                          ELSE IF k < Len(Scripts)
                          THEN [pipe EXCEPT !.k = k + 1]
                          ELSE [pipe EXCEPT !.pc = "msg"]
    /\ UNCHANGED <<writable, checkVars>>

PipePlanck == run_script(1)
PipeAuger == run_script(2)
PipeGw == run_script(3)
PipeDm == run_script(4)
PipeBuild == run_script(5)

\* print("[ok] Data prepared and figures built successfully."); main returns
PipeOk ==
    /\ pipe.pc = "msg"
    /\ pipe' = [pipe EXCEPT !.pc = "done", !.ok = TRUE, !.rc = 0]
    /\ UNCHANGED <<files, outputs, inv, writable, checkVars>>

NextPipe ==
    \/ PipeStart
    \/ PipePlanck
    \/ PipeAuger
    \/ PipeGw
    \/ PipeDm
    \/ PipeBuild
    \/ PipeOk

PipeSpec == InitPipe /\ [][NextPipe]_vars

-----------------------------------------------------------------------------
(* Properties *)

NChecks == Len(CheckOrder)
Absent(i) == ~data[CheckOrder[i]].exists
Names == <<"UHECR suppression", "GW level", "CMB TT well-formed">>
Finished == pc = "done"
\* main ran to its sys.exit
Completed == pc = "done" /\ exc.type = "SystemExit"
\* an exception left main()
Escaped == pc = "done" /\ exc.type \notin {"none", "SystemExit"}
HasCheckReport == Len(reportFile) = 1 /\ reportFile[1].kind = "checks"
FailingBadge == badge_svg(FALSE, DefaultLabel)
PassingBadge == badge_svg(TRUE, DefaultLabel)

\* C1: in a finished run whose output files are writable, every check whose
\* dataset file is absent has its entry in the report, with status SKIP, and
\* the run does not fail when every dataset is absent.
C1_SkipReported ==
    (Finished /\ writable = AllWritable) =>
        /\ \A i \in 1..NChecks :
              Absent(i) =>
                  /\ HasCheckReport
                  /\ Len(reportFile[1].entries) = NChecks
                  /\ reportFile[1].entries[i].name = Names[i]
                  /\ reportFile[1].entries[i].status = "SKIP"
        /\ (\A i \in 1..NChecks : Absent(i)) => exitStatus = 0

\* the verdict a dataset's check returned, for the checks that returned
NonSkippedOk(i) == Absent(i) \/ checks[i].ok

\* C2: once main has composed its report, passed_all is the conjunction of
\* the results of the checks whose dataset is present (true when all are
\* absent); a finished run has status 0 exactly when all three checks
\* returned, that conjunction is true and the artifacts were written, and
\* status 1 otherwise.
C2_OverallAndExit ==
    /\ pc \in {"write_badge", "sys_exit"} =>
          (passed_all <=> \A i \in 1..NChecks : NonSkippedOk(i))
    /\ Finished =>
          /\ exitStatus \in {0, 1}
          /\ exitStatus = 0 <=>
                /\ Len(checks) = NChecks
                /\ \A i \in 1..NChecks : NonSkippedOk(i)
                /\ writable = AllWritable

\* C2 witness: a skipped, a passing and a failing check; the run ends with 1
C2_Witness ==
    /\ Completed
    /\ Absent(1) /\ ~Absent(2) /\ ~Absent(3)
    /\ checks[2].ok /\ ~checks[3].ok
    /\ exitStatus = 1 /\ ~passed_all

\* C3: in a finished run whose output files are writable, every check that
\* does not raise on its own dataset has its result in the report, whatever
\* the other datasets hold.
C3_ChecksIsolated ==
    (Finished /\ writable = AllWritable) =>
        \A i \in 1..NChecks :
            LET r == RunCheck(CheckOrder[i], data[CheckOrder[i]])
            IN ~r.raised =>
                  /\ HasCheckReport
                  /\ Len(reportFile[1].entries) = NChecks
                  /\ reportFile[1].entries[i].name = r.name
                  /\ reportFile[1].entries[i].status = Status(r)

\* C4 as stated: whenever an exception left main(), the finished run has
\* written the failing badge and a report holding the error text, and its
\* status is 1.
C4_AlwaysBoth ==
    Escaped =>
        /\ badgeFile = <<FailingBadge>>
        /\ Len(reportFile) = 1 /\ reportFile[1].kind = "error"
        /\ reportFile[1].error = exc.msg
        /\ {BADGE_OUT, REPORT_MD} \subseteq written
        /\ exitStatus = 1

\* C4 amended: whenever an exception left main(), the run ends with status 1;
\* the failing badge is written whenever the badge file is writable, and the
\* report with the error text whenever both output files are writable.
C4_BestEffort ==
    Escaped =>
        /\ exitStatus = 1
        /\ BADGE_OUT \in writable => badgeFile = <<FailingBadge>> /\ BADGE_OUT \in written
        /\ writable = AllWritable =>
              /\ Len(reportFile) = 1 /\ reportFile[1].kind = "error"
              /\ reportFile[1].error = exc.msg /\ exc.msg # ""
              /\ REPORT_MD \in written

\* C4 witness: a check raised and the handler wrote both artifacts
C4_Witness ==
    /\ Escaped /\ exc.type = "ValueError"
    /\ badgeFile = <<FailingBadge>>
    /\ Len(reportFile) = 1 /\ reportFile[1].kind = "error"
    /\ written = {BADGE_OUT, REPORT_MD}

BadgeDoc(i) == badgeLog[i].after[Len(badgeLog[i].after)]

\* C6: any two calls of write_badge with the same flag and the same label
\* leave the same badge file, whatever the file held before each call.
C6_BadgeDeterministic ==
    \A i, j \in 1..Len(badgeLog) :
        (badgeLog[i].passing = badgeLog[j].passing /\ badgeLog[i].label = badgeLog[j].label)
            => badgeLog[i].after = badgeLog[j].after

\* C6 witness: the same arguments were rendered over two different files
C6_Witness ==
    \E i, j \in 1..Len(badgeLog) :
        /\ i < j
        /\ badgeLog[i].passing = badgeLog[j].passing
        /\ badgeLog[i].label = badgeLog[j].label
        /\ badgeLog[i].before = <<>>
        /\ badgeLog[j].before # <<>>
        /\ badgeLog[j].before # badgeLog[j].after

\* C7: of two rendered badges, the one with the longer label has the wider
\* label region and the greater total width.
C7_WidthFollowsText ==
    \A i, j \in 1..Len(badgeLog) :
        Len(badgeLog[i].label) < Len(badgeLog[j].label) =>
            /\ BadgeDoc(i).label_rect.width < BadgeDoc(j).label_rect.width
            /\ BadgeDoc(i).width < BadgeDoc(j).width

\* C8: every rendered badge has a green status region reading "passing" when
\* the flag is true and a red one reading "failing" when it is false; the
\* label region has the same color in both.
C8_TwoStates ==
    \A i \in 1..Len(badgeLog) :
        /\ badgeLog[i].passing =>
              /\ BadgeDoc(i).status_rect.fill = "#4c1"
              /\ BadgeDoc(i).status_text.s = "passing"
        /\ ~badgeLog[i].passing =>
              /\ BadgeDoc(i).status_rect.fill = "#e05d44"
              /\ BadgeDoc(i).status_text.s = "failing"
        /\ BadgeDoc(i).label_rect.fill = "#555"
        /\ BadgeDoc(i).label_text.s = badgeLog[i].label

\* C8 witness: one label rendered in both states
C8_Witness ==
    \E i, j \in 1..Len(badgeLog) :
        /\ badgeLog[i].passing /\ ~badgeLog[j].passing
        /\ badgeLog[i].label = badgeLog[j].label
        /\ BadgeDoc(i) # BadgeDoc(j)

\* index i is the first among the rows whose key column is closest to target
FirstClosest(rows, col, target, i) ==
    /\ \A j \in 1..Len(rows) :
          Abs(rows[i][col].num - target) <= Abs(rows[j][col].num - target)
    /\ \A j \in 1..(i - 1) :
          Abs(rows[j][col].num - target) > Abs(rows[i][col].num - target)

UhecrReturned ==
    /\ pc \notin {"idle", "check_uhecr"}
    /\ Len(checks) >= 1
    /\ data[UHECR_CSV].exists

GwReturned ==
    /\ pc \notin {"idle", "check_uhecr", "check_gw"}
    /\ Len(checks) >= 2
    /\ data[GW_CSV].exists

\* C10: when the GW check has returned for a present file, its verdict is
\* PASS exactly when the strain of the first record closest to 1e-3 Hz lies
\* in [5e-24, 5e-21], and its details hold that record's frequency and
\* strain.
C10_GwNearest ==
    GwReturned =>
        LET rows == data[GW_CSV].rows
        IN \A i \in 1..Len(rows) :
              FirstClosest(rows, "f", 10, i) =>
                  /\ checks[2].ok <=> (5 <= rows[i].h.num /\ rows[i].h.num <= 5000)
                  /\ Status(checks[2]) = IF checks[2].ok THEN "PASS" ELSE "FAIL"
                  /\ checks[2].detail.vals = <<rows[i].f.num, rows[i].h.num>>

\* C10 witness: two records equally close; the first, at the upper bound, passed
C10_Witness ==
    /\ GwReturned
    /\ data[GW_CSV].rows = <<GRow(Num(15), Num(5000)), GRow(Num(5), Num(5001))>>
    /\ checks[2].ok
    /\ checks[2].detail.vals = <<15, 5000>>

\* the current run has evaluated (or is past) the i-th check of main's list
Evaluated(i) ==
    /\ pc # "idle"
    /\ i = 1 => pc # "check_uhecr"
    /\ i = 2 => pc \notin {"check_uhecr", "check_gw"} /\ Len(checks) >= 1
    /\ i = 3 => pc \notin {"check_uhecr", "check_gw", "check_cmb"} /\ Len(checks) >= 2
\* the i-th check returned a tuple (it did not raise)
Returned(i) == Evaluated(i) /\ Len(checks) >= i
Required == <<{"log10E", "J"}, {"f", "h"}, {"ell", "Cl"}>>
File(i) == data[CheckOrder[i]]
InsufficientTexts == {"FAIL: insufficient samples in 500<=l<=2500.",
                      "FAIL: not enough points in comparison bands."}

\* C11: a check whose file exists with its required columns and no data
\* rows returns FAIL with an insufficient-data detail; it does not raise
\* and is not reported as SKIP.
C11_EmptyIsInsufficient ==
    \A i \in 1..NChecks :
        (/\ Evaluated(i)
         /\ File(i).exists
         /\ Required[i] \subseteq File(i).header
         /\ File(i).rows = <<>>)
        => /\ Returned(i)
           /\ ~checks[i].ok
           /\ Status(checks[i]) = "FAIL"
           /\ checks[i].detail.text \in InsufficientTexts

UhecrSamples(i1, i2) ==
    /\ FirstClosest(File(1).rows, "log10E", 196, i1)
    /\ FirstClosest(File(1).rows, "log10E", 200, i2)
UhecrReadable ==
    /\ File(1).exists
    /\ Required[1] \subseteq File(1).header
    /\ \A k \in 1..Len(File(1).rows) :
          File(1).rows[k].log10E.tag # "text" /\ File(1).rows[k].J.tag # "text"

\* C12: when the UHECR check has run on a readable file and the flux at the
\* sample nearest 19.6 or at the sample nearest 20.0 is <= 0, the check
\* returned FAIL with the non-positive-flux detail holding the two fluxes
\* and no ratio; no run ever raises a division error.
C12_NonPositiveFlux ==
    /\ exc.type # "ZeroDivisionError"
    /\ (Evaluated(1) /\ UhecrReadable) =>
          \A i1, i2 \in 1..Len(File(1).rows) :
              (/\ UhecrSamples(i1, i2)
               /\ (File(1).rows[i1].J.num <= 0 \/ File(1).rows[i2].J.num <= 0))
              => /\ Returned(1)
                 /\ ~checks[1].ok
                 /\ Status(checks[1]) = "FAIL"
                 /\ checks[1].detail.text = "FAIL: non-positive flux values"
                 /\ checks[1].detail.vals =
                        <<File(1).rows[i1].J.num, File(1).rows[i2].J.num>>

\* C12 witness: a zero flux at the 19.6 sample was reported, not divided by
C12_Witness ==
    /\ Returned(1) /\ UhecrReadable
    /\ File(1).rows = <<URow(Num(195), Num(0)), URow(Num(200), Num(3))>>
    /\ checks[1].detail.text = "FAIL: non-positive flux values"

\* a required cell of the i-th file that is no finite number
BadCell(i) ==
    \E k \in 1..Len(File(i).rows) : \E col \in Required[i] :
        File(i).rows[k][col].tag \in {"text", "inf"}

\* C13: a check whose file exists with its required columns and holds a
\* non-finite or non-numeric value in a required column returns FAIL: it
\* does not raise and it does not pass.
C13_BadValueFails ==
    \A i \in 1..NChecks :
        (/\ Evaluated(i)
         /\ File(i).exists
         /\ Required[i] \subseteq File(i).header
         /\ BadCell(i))
        => /\ Returned(i)
           /\ ~checks[i].ok
           /\ Status(checks[i]) = "FAIL"

CmbReadable ==
    /\ File(3).exists
    /\ Required[3] \subseteq File(3).header
    /\ \A k \in 1..Len(File(3).rows) :
          File(3).rows[k].ell.tag # "text" /\ File(3).rows[k].Cl.tag # "text"
\* the Cl values of the rows with a <= ell <= b, in file order
BandCl(a, b) ==
    LET sel == SelectSeq(File(3).rows, LAMBDA r : a <= r.ell.num /\ r.ell.num <= b)
    IN [k \in 1..Len(sel) |-> sel[k].Cl.num]

Results == [i \in 1..NChecks |-> RunCheck(CheckOrder[i], File(i))]
Raising == {i \in 1..NChecks : Results[i].raised}
FirstRaising == CHOOSE i \in Raising : \A j \in Raising : i <= j

\* C20: when a run has ended with both output files writable, the report and
\* the badge on disk hold the documents of that run and nothing else,
\* whatever earlier runs had written: the report of the run's checks and the
\* badge of their conjunction, or the error report and the failing badge
\* when a check raised.
C20_LatestOnly ==
    (Finished /\ writable = AllWritable) =>
        IF Raising = {}
        THEN /\ reportFile = <<ReportOf(Results)>>
             /\ badgeFile = <<badge_svg(PassedAll(Results), DefaultLabel)>>
        ELSE /\ reportFile = <<ErrorReport(Results[FirstRaising].err)>>
             /\ badgeFile = <<FailingBadge>>

\* C20 witness: a second run ended over the different artifacts of a first
C20_Witness ==
    /\ Finished /\ writable = AllWritable
    /\ runs = 2
    /\ Len(badgeLog) = 2
    /\ badgeLog[2].before = <<FailingBadge>>
    /\ badgeFile = <<PassingBadge>>
    /\ HasCheckReport

LastInv == inv[Len(inv)]
AllNum(d, cols) ==
    \A i \in 1..Len(d.rows), col \in cols : d.rows[i][col].tag = "num"
\* load_csv returns: the file is there, with the columns, all values finite
Loads(d, cols) == d.exists /\ cols \subseteq d.header /\ AllNum(d, cols)
Increasing(xs) == \A i, j \in 1..Len(xs) : i < j => xs[i] < xs[j]
NonIncreasing(xs) == \A i \in 1..(Len(xs) - 1) : xs[i + 1] <= xs[i]
\* sanity_checks of fetch_planck.py raises nothing on the loaded file
PlanckSane(d) ==
    /\ Len(d.rows) >= 1
    /\ \A i \in 1..Len(d.rows) : d.rows[i].ell.num >= 2
    /\ Increasing(Nums(d, "ell"))
\* the loaded, sane file is not flagged
PlanckClean(d) ==
    /\ \A i \in 1..Len(d.rows) : d.rows[i].Cl.num >= 0
    /\ outlier_frac(Nums(d, "Cl"))[2] > 0
    /\ 5 * outlier_frac(Nums(d, "Cl"))[1] < outlier_frac(Nums(d, "Cl"))[2]
PlanckRaises(d) == ~(Loads(d, {"ell", "Cl"}) /\ PlanckSane(d))
PlanckGood(d) == ~PlanckRaises(d) /\ PlanckClean(d)
AugerSane(d) ==
    /\ Len(d.rows) >= 1
    /\ \A i \in 1..Len(d.rows) : d.rows[i].stat.num >= 0 /\ d.rows[i].sys.num >= 0
AugerRaises(d) == ~(Loads(d, {"log10E", "J", "stat", "sys"}) /\ AugerSane(d))
AugerGood(d) == ~AugerRaises(d) /\ NonIncreasing(Nums(d, "J"))

\* what is claimed of a validator run r: its status, and the two artifacts
\* on disk after it
ValidatorRun(r, json, log, good, raises) ==
    /\ r.rc \in {0, 2}
    /\ r.rc = 0 <=> good
    /\ r.after = r.before
    /\ Len(outputs[json]) = 1 /\ Len(outputs[log]) = 1
    /\ outputs[json][1].passed <=> good
    /\ raises => /\ r.rc = 2
                 /\ ~outputs[json][1].passed
                 /\ Len(outputs[json][1].notes) = 1
                 /\ outputs[log][1][Len(outputs[log][1])] =
                        [error |-> outputs[json][1].notes[1]]
    /\ ~raises => outputs[json][1].notes = <<>>

\* C14: a run of fetch_planck.py or fetch_auger.py returns 0 exactly when
\* every required file exists with its required columns, holds finite
\* numbers only and passes the sanity checks, and 2 otherwise; a missing
\* file or column, a non-finite value or an exception of the sanity checks
\* leaves passed false and the error text in notes; the JSON summary and
\* the log are written in every case and the data files are not touched.
C14_ValidatorStatus ==
    Len(inv) > 0 =>
        /\ LastInv.script = "fetch_planck.py" =>
              ValidatorRun(LastInv, PLANCK_JSON, PLANCK_LOG,
                           PlanckGood(files[CMB_TT]) /\ PlanckGood(files[CMB_EE]),
                           PlanckRaises(files[CMB_TT]) \/ PlanckRaises(files[CMB_EE]))
        /\ LastInv.script = "fetch_auger.py" =>
              ValidatorRun(LastInv, AUGER_JSON, AUGER_LOG,
                           AugerGood(files[UHECR_CSV]), AugerRaises(files[UHECR_CSV]))

\* C14 witness: fetch_planck.py returned 0 on good files, then fetch_auger.py
\* returned 2 on a flux file with an inf, with its note and both artifacts
C14_Witness ==
    /\ Len(inv) = 2
    /\ inv[1].script = "fetch_planck.py" /\ inv[1].rc = 0
    /\ inv[2].script = "fetch_auger.py" /\ inv[2].rc = 2
    /\ files[UHECR_CSV] = Table(AHeader, <<ARow(Num(196), Inf, Num(1), Num(1))>>)
    /\ outputs[PLANCK_JSON] # <<>> /\ outputs[PLANCK_JSON][1].passed
    /\ outputs[AUGER_JSON] # <<>> /\ outputs[AUGER_JSON][1].notes # <<>>
    /\ outputs[AUGER_LOG] # <<>>

OutCsv(script) == IF script = "fetch_gw.py" THEN GW_CSV ELSE DM_CSV
Generated(script) == IF script = "fetch_gw.py" THEN GwGenerated ELSE DmGenerated

\* C15: a run of fetch_gw.py or fetch_dm.py leaves an existing CSV as it is
\* when --force is not given (status 0); it creates a missing CSV with the
\* generated rows, and with --force it overwrites the CSV with them (the
\* data directory being writable); it touches no other file.  Hence a run
\* without --force after a run of the same script leaves the file that run
\* left, when no forced run of it and no generate_datasets.py ran between.
C15_CreateIfMissing ==
    \A i \in 1..Len(inv) :
        inv[i].script \in {"fetch_gw.py", "fetch_dm.py"} =>
            LET r == inv[i]
                F == OutCsv(r.script)
            IN /\ \A G \in DataFiles \ {F} : r.after[G] = r.before[G]
               /\ (r.before[F].exists /\ ~r.force) => r.after = r.before /\ r.rc = 0
               /\ (DATA_DIR \in writable /\ (~r.before[F].exists \/ r.force)) =>
                      r.after[F] = Generated(r.script) /\ r.rc = 0
               /\ \A j \in (i + 1)..Len(inv) :
                      (/\ inv[j].script = r.script
                       /\ ~inv[j].force
                       /\ r.after[F].exists
                       /\ \A k \in (i + 1)..(j - 1) :
                              /\ inv[k].script # "generate_datasets.py"
                              /\ ~(inv[k].script = r.script /\ inv[k].force))
                      => inv[j].after[F] = r.after[F]

\* C15 witness: fetch_gw.py kept a user's file, overwrote it under --force,
\* and kept the generated file in a third run
C15_Witness ==
    /\ Len(inv) = 3
    /\ \A i \in 1..3 : inv[i].script = "fetch_gw.py"
    /\ ~inv[1].force /\ inv[1].before[GW_CSV] = GUser /\ inv[1].after[GW_CSV] = GUser
    /\ inv[2].force /\ inv[2].after[GW_CSV] = GwGenerated
    /\ ~inv[3].force /\ inv[3].after[GW_CSV] = GwGenerated

\* the columns each consumer reads from (or asserts of) a data file
Consumers ==
    {[by |-> "check_predictions.py", file |-> UHECR_CSV, cols |-> {"log10E", "J"}],
     [by |-> "check_predictions.py", file |-> GW_CSV, cols |-> {"f", "h"}],
     [by |-> "check_predictions.py", file |-> CMB_TT, cols |-> {"ell", "Cl"}],
     [by |-> "build_figures.py", file |-> UHECR_CSV,
      cols |-> {"log10E", "J", "sigma_stat", "sigma_sys"}],
     [by |-> "build_figures.py", file |-> GW_CSV, cols |-> {"f", "h"}],
     [by |-> "build_figures.py", file |-> CMB_TT, cols |-> {"ell", "Cl"}],
     [by |-> "test_figures_exist.py", file |-> UHECR_CSV,
      cols |-> {"log10E", "flux", "stat_err", "sys_err"}],
     [by |-> "test_figures_exist.py", file |-> GW_CSV,
      cols |-> {"frequency_hz", "strain", "strain_err"}],
     [by |-> "test_figures_exist.py", file |-> CMB_TT, cols |-> {"ell", "Cl_TT", "error"}],
     [by |-> "test_figures_exist.py", file |-> DM_CSV, cols |-> {"mass_GeV", "sigma_si_cm2"}]}
Generators == {"fetch_gw.py", "fetch_dm.py", "generate_datasets.py"}
\* the data files a generator run wrote
WrittenBy(r) == {F \in DataFiles : r.after[F].exists /\ r.after[F] # r.before[F]}

\* C17: every data file a generator run (fetch_gw.py, fetch_dm.py,
\* generate_datasets.py) has written holds every column that each consumer
\* of that file requires.
C17_ColumnsAgree ==
    \A i \in 1..Len(inv) :
        inv[i].script \in Generators =>
            \A F \in WrittenBy(inv[i]) :
                \A c \in Consumers : c.file = F => c.cols \subseteq inv[i].after[F].header

PipeDone == pipe.pc = "done"

\* C16: a run of fetch_figures.py with all five scripts in place, started on
\* a writable data directory that holds no CSV file, runs the four fetch_*
\* scripts and build_figures.py and ends with the success message and
\* status 0.
C16_EndToEnd ==
    (/\ PipeDone
     /\ pipe.present = AllScripts
     /\ DATA_DIR \in writable
     /\ Len(inv) > 0
     /\ \A F \in DataFiles : ~inv[1].before[F].exists)
    => /\ Len(inv) = Len(Scripts)
       /\ pipe.ok
       /\ pipe.rc = 0

\* C19: fetch_figures.py starts fetch_planck.py, fetch_auger.py, fetch_gw.py,
\* fetch_dm.py, build_figures.py in this order, each with the pipeline's
\* --force and only after the one before exited 0; at the first script that
\* is missing or exits non-zero it stops, starts no later script and exits
\* with that script's exit code (1 for a missing script); the success
\* message is printed, and the status is 0, only when all five exited 0.
C19_PipelineOrder ==
    LET n == Len(inv)
    IN /\ n <= Len(Scripts)
       /\ \A i \in 1..n : /\ inv[i].script = Scripts[i]
                          /\ inv[i].force = pipe.force
                          /\ Scripts[i] \in pipe.present
       /\ \A i \in 1..(n - 1) : inv[i].rc = 0
       /\ pipe.ok => PipeDone /\ n = Len(Scripts) /\ \A i \in 1..n : inv[i].rc = 0
       /\ ~PipeDone => pipe.rc = Running
       /\ PipeDone =>
             IF n > 0 /\ inv[n].rc # 0
             THEN ~pipe.ok /\ pipe.rc = inv[n].rc
             ELSE IF n < Len(Scripts)
             THEN ~pipe.ok /\ pipe.rc = 1 /\ Scripts[n + 1] \notin pipe.present
             ELSE pipe.ok /\ pipe.rc = 0

\* C19 witness: fetch_planck.py exited 0, fetch_auger.py exited 2, and the
\* pipeline ended there with status 2
C19_Witness ==
    /\ PipeDone
    /\ Len(inv) = 2
    /\ inv[1].rc = 0
    /\ inv[2].rc = 2
    /\ pipe.rc = 2
    /\ ~pipe.ok

\* C21: the report of a run in which main reached its sys.exit has one entry
\* per registered check, in the order UHECR suppression, GW level, CMB TT
\* well-formed; each entry's status is one of PASS, FAIL, SKIP, and it is
\* SKIP exactly when the dataset file of that check is absent.
C21_OneEntryPerCheck ==
    Completed =>
        /\ HasCheckReport
        /\ Len(reportFile[1].entries) = NChecks
        /\ \A i \in 1..NChecks :
              /\ reportFile[1].entries[i].name = Names[i]
              /\ reportFile[1].entries[i].status \in {"PASS", "FAIL", "SKIP"}
              /\ reportFile[1].entries[i].status = "SKIP" <=> Absent(i)

\* C21 witness: a completed run whose report reads PASS, SKIP, FAIL
C21_Witness ==
    /\ Completed /\ HasCheckReport
    /\ ~Absent(1) /\ Absent(2) /\ ~Absent(3)
    /\ [i \in 1..NChecks |-> reportFile[1].entries[i].status] = <<"PASS", "SKIP", "FAIL">>

\* C22: a finished run whose output files are writable leaves the passing
\* badge exactly when its status is 0 and the failing badge exactly when its
\* status is 1; and from the moment a run whose three checks returned has
\* written its report and badge until it ends, it keeps the report of those
\* checks and the badge of their overall result: sys.exit is not caught, so
\* the handler never rewrites them.
C22_BadgeAgreesWithExit ==
    /\ (Finished /\ writable = AllWritable) =>
          /\ badgeFile \in {<<PassingBadge>>, <<FailingBadge>>}
          /\ exitStatus \in {0, 1}
          /\ badgeFile = <<PassingBadge>> <=> exitStatus = 0
          /\ badgeFile = <<FailingBadge>> <=> exitStatus = 1
    /\ (pc # "idle" /\ Len(checks) = NChecks /\ {REPORT_MD, BADGE_OUT} \subseteq written) =>
          /\ reportFile = <<ReportOf(checks)>>
          /\ badgeFile = <<badge_svg(PassedAll(checks), DefaultLabel)>>
          /\ pc \in {"sys_exit", "raised", "done"}
          /\ pc # "sys_exit" => exc = SystemExit(IF PassedAll(checks) THEN 0 ELSE 1)
    /\ pc \in {"handler_badge", "handler_report", "handler_exit"} => CaughtByHandler(exc)

\* C22 witness: sys.exit(0) has passed the handler and the passing badge and
\* the report of the checks are on disk, over the failing badge of an
\* earlier run
C22_Witness ==
    /\ Completed /\ exitStatus = 0
    /\ \E i \in 1..NChecks : ~Absent(i)
    /\ badgeFile = <<PassingBadge>> /\ HasCheckReport
    /\ Len(badgeLog) = 2 /\ badgeLog[1].after = <<FailingBadge>>

====
